---- MODULE Spec2Model ----
(***************************************************************************)
(* DistributedSamplingDataset of src/src/text_data.py: the generation of   *)
(* the global index array, its persistence in <work_dir>/global_indices.npy*)
(* and its slicing by rank and by data loader worker; __getitem__ of the   *)
(* two dataset classes of that file; HuggingFaceSync of                    *)
(* src/src/callbacks/hf_sync.py.                                           *)
(*                                                                         *)
(* Arrays are sequences; array positions are 0-based as in the source, so  *)
(* position p of an array a is a[p + 1].                                   *)
(***************************************************************************)
EXTENDS Integers, Sequences, FiniteSets, TLC

\* ------------------------------------------------------------------ bounds
MaxLen == 5
MaxWorld == 2
MaxBatch == 2
MaxWorkers == 2
MaxEpoch == 1
MaxStart == 2
MaxPadWorld == 5
MaxSteps == 2
MaxTokens == 2
MaxSeqLen == 2

\* ----------------------------------------------------------- python, numpy
None == "None"

Min(a, b) == IF a < b THEN a ELSE b

\* math.ceil(a / b) for an integer a (possibly negative) and b > 0
Ceil(a, b) == -((-a) \div b)

\* a[start : stop : step] with start, stop >= 0 and step >= 1
SliceLen(n, start, stop, step) ==
    LET hi == Min(stop, n)
    IN  IF start >= hi THEN 0 ELSE (hi - start + step - 1) \div step

Slice(a, start, stop, step) ==
    [k \in 1..SliceLen(Len(a), start, stop, step) |-> a[start + (k - 1) * step + 1]]

\* a[start :: step] and a[start:]
SliceFrom(a, start, step) == Slice(a, start, Len(a), step)

\* a[:stop]
Prefix(a, stop) == Slice(a, 0, stop, 1)

\* a.reshape((-1, cols)): the rows of a, Len(a) being a multiple of cols
Reshape(a, cols) ==
    [b \in 1..(Len(a) \div cols) |-> SubSeq(a, (b - 1) * cols + 1, b * cols)]

\* rows.reshape((-1,)): the rows one after the other
RECURSIVE Flatten(_)
Flatten(rows) ==
    IF rows = <<>> THEN <<>> ELSE Head(rows) \o Flatten(Tail(rows))

\* np.arange(n, dtype=np.uint32)
Arange(n) == [i \in 1..n |-> i - 1]

\* np.random.PCG64(seed=s): the generator's state is a function of s alone.
\* PCG64 is stood for by a small linear congruential generator.
PCG64(s) == s % 65537

RngNext(state) == (state * 75 + 74) % 65537

\* rng.shuffle(a): Fisher-Yates from the last position down, each exchange
\* partner drawn from the generator.
RECURSIVE ShuffleFrom(_, _, _)
ShuffleFrom(a, i, state) ==
    IF i < 2 THEN a
    ELSE LET s2 == RngNext(state)
             j == (s2 % i) + 1
             b == [a EXCEPT ![i] = a[j], ![j] = a[i]]
         IN  ShuffleFrom(b, i - 1, s2)

Shuffle(a, state) == ShuffleFrom(a, Len(a), state)

\* ------------------------------------------------- the persisted index file
\* An entry stored as if the file's dtype were np.uint16
ToBytesU16(v) == << v % 256, (v \div 256) % 256 >>

\* One np.uint32 entry as its four bytes, least significant first: the bits
\* above the 32nd are lost.
ToBytes(v) ==
    << v % 256, (v \div 256) % 256, (v \div 65536) % 256, (v \div 16777216) % 256 >>

FromBytes(b) == b[1] + 256 * b[2] + 65536 * b[3] + 16777216 * b[4]

\* global_indices_mmap[:] = global_indices, then flush(): the file's bytes
Encode(a) == Flatten([k \in 1..Len(a) |-> ToBytes(a[k])])

\* np.memmap(file, dtype=np.uint32, mode="w+", shape=(n,)) creates the file,
\* or empties the one that is there, and extends it to 4*n zero bytes.
ZeroFile(n) == [k \in 1..(4 * n) |-> 0]

\* A path of the file system: whether the file exists, and its bytes.
NoFile == [exists |-> FALSE, bytes |-> <<>>]
File(b) == [exists |-> TRUE, bytes |-> b]

\* What a call gives: a value, or the exception it raised.
Ok(v) == [err |-> None, val |-> v]
Raised(e) == [err |-> e, val |-> <<>>]

\* np.memmap(file, mode="r", dtype=np.uint32): the whole file as entries.
\* A missing file, an empty file and a length that is no multiple of the
\* entry size are refused.
MemmapRead(f) ==
    IF ~f.exists THEN Raised("FileNotFoundError")
    ELSE IF Len(f.bytes) = 0 \/ Len(f.bytes) % 4 # 0 THEN Raised("ValueError")
    ELSE Ok([k \in 1..(Len(f.bytes) \div 4) |->
                FromBytes(SubSeq(f.bytes, 4 * k - 3, 4 * k))])

\* ------------------------------------------------------------------- state
VARIABLES
    dataset_len,  \* len(self.dataset)
    cfg,          \* the arguments every process constructs its dataset with,
                  \* and the job's layout
    obj,          \* obj[r]: the DistributedSamplingDataset of the process of rank r
    pc,           \* pc[r]: where the process of rank r is
    disk,         \* disk[n]: <work_dir>/global_indices.npy on file system n
    out,          \* out[r]: what __iter__ gave the latest pass of rank r's data loader
                  \* in its current epoch, entries with their array positions
    built,        \* built[r]: global_indices, what _build_global_indices last returned
                  \* on rank r in its current epoch
    saves,        \* saves[n]: the epochs the file of disk[n] has been written for
    taken         \* taken[r][k]: how many items were drawn from generator k of
                  \* rank r's latest pass

\* HuggingFaceSync of src/src/callbacks/hf_sync.py, one instance a process
VARIABLES
    timestamp,          \* state.timestamp.batch.value: the batches trained
    model_save_folder,  \* the files under self.model_save_folder
    uploaded_files,     \* uploaded_files[r]: self.uploaded_files of rank r's callback
    last_checkpoint,    \* last_checkpoint[r]: self.last_checkpoint, NoCheckpoint for None
    uploads,            \* uploads[r][f]: the calls of api.upload_file for path f that
                        \* returned, on the process of rank r
    training            \* training[r]: "running", or "raised" once a handler raised

hf_vars ==
    << timestamp, model_save_folder, uploaded_files, last_checkpoint, uploads, training >>

\* __getitem__ of StreamingTextDataset and of NoStreamingDataset
VARIABLES
    sample,        \* the sample read from the shards: its columns, the
                   \* length of its arrays
    text_dataset,  \* self.max_seq_len and self.tokenizer of the dataset
    item           \* item[c]: what __getitem__ of class c gave for the sample

item_vars == << sample, text_dataset, item >>

vars ==
    << dataset_len, cfg, obj, pc, disk, out, built, saves, taken, hf_vars, item_vars >>

ShuffleSeed == 9176

Ranks == 0..(cfg.world_size - 1)
Epochs == 0..MaxEpoch

\* dist.get_local_rank(): ranks are laid out node by node
LocalRank(r) == r % cfg.nproc_per_node
Node(r) == r \div cfg.nproc_per_node

\* The file system the work_dir of rank r's process is on
FsOf(r) == IF cfg.shared_fs THEN 0 ELSE Node(r)
FileSystems == {FsOf(r) : r \in Ranks}

\* The classes with a __getitem__
DatasetClasses == {"StreamingTextDataset", "NoStreamingDataset"}

\* What a call of __getitem__ gave: the exception raised, or the value
\* returned, which is None or a mapping with these keys and arrays of this
\* length
NotCalled ==
    [called |-> FALSE, err |-> None, returned |-> FALSE, is_none |-> FALSE, keys |-> {}, len |-> 0]
RaisedItem(e) ==
    [called |-> TRUE, err |-> e, returned |-> FALSE, is_none |-> FALSE, keys |-> {}, len |-> 0]
ReturnedItem(keys, len) ==
    [called |-> TRUE, err |-> None, returned |-> TRUE, is_none |-> FALSE, keys |-> keys, len |-> len]
ReturnedNone ==
    [called |-> TRUE, err |-> None, returned |-> TRUE, is_none |-> TRUE, keys |-> {}, len |-> 0]

\* No sample is read
NoSample ==
    /\ sample = [columns |-> {}, len |-> 0]
    /\ text_dataset = [max_seq_len |-> 1, tokenizer |-> "pad_token"]
    /\ item = [c \in DatasetClasses |-> NotCalled]

\* self.last_checkpoint = None: no batch has this number
NoCheckpoint == -1

\* No HuggingFaceSync among the trainer's callbacks
NoCallback ==
    /\ timestamp = 0
    /\ model_save_folder = {}
    /\ uploaded_files = [r \in Ranks |-> {}]
    /\ last_checkpoint = [r \in Ranks |-> NoCheckpoint]
    /\ uploads = [r \in Ranks |-> {}]
    /\ training = [r \in Ranks |-> "running"]

\* ---------------------------------------------------------- __init__ (sizes)
\* num_samples rounded down where the source rounds up
NumSamplesFloor(len, world_size, drop_last) ==
    IF drop_last /\ len % world_size # 0
    THEN Ceil(len - world_size, world_size)
    ELSE len \div world_size

\* num_samples with (len - world_size) / world_size rounded down where the
\* source rounds up
NumSamplesShort(len, world_size, drop_last) ==
    IF drop_last /\ len % world_size # 0
    THEN (len - world_size) \div world_size
    ELSE Ceil(len, world_size)

\* num_samples without the branch of drop_last
NumSamplesNoDrop(len, world_size, drop_last) == Ceil(len, world_size)

NumSamples(len, world_size, drop_last) ==
    IF drop_last /\ len % world_size # 0
    THEN Ceil(len - world_size, world_size)
    ELSE Ceil(len, world_size)

TotalSize(len, world_size, drop_last) ==
    NumSamples(len, world_size, drop_last) * world_size

\* The object __init__ leaves, before its call of _build_and_save_global_indices
NewObj(r) ==
    [ seed |-> cfg.seed,
      epoch |-> cfg.epoch,
      start_index |-> cfg.start_index,
      shuffle |-> cfg.shuffle,
      drop_last |-> cfg.drop_last,
      rank |-> r,
      local_rank |-> LocalRank(r),
      world_size |-> cfg.world_size,
      total_size |-> TotalSize(dataset_len, cfg.world_size, cfg.drop_last),
      device_batch_size |-> cfg.global_batch_size \div cfg.world_size,
      work_dir |-> cfg.work_dir,
      global_indices_file |-> None ]

\* ---------------------------------------------------- _build_global_indices
\* A padding that takes one prefix of the permutation and stops
PadLoopOnce(arrays, padding_size, indices) ==
    IF padding_size > 0
    THEN arrays \o Prefix(indices, Min(padding_size, Len(indices)))
    ELSE arrays

\* How many times the body of the while loop runs for a permutation of len
\* entries
RECURSIVE PadLoopSteps(_, _)
PadLoopSteps(padding_size, len) ==
    IF padding_size > 0
    THEN 1 + PadLoopSteps(padding_size - Min(padding_size, len), len)
    ELSE 0

\* The while loop that pads: arrays is the concatenation so far
RECURSIVE PadLoop(_, _, _)
PadLoop(arrays, padding_size, indices) ==
    IF padding_size > 0
    THEN LET array_to_concatenate == Prefix(indices, Min(padding_size, Len(indices)))
         IN  PadLoop(arrays \o array_to_concatenate,
                     padding_size - Len(array_to_concatenate), indices)
    ELSE arrays

\* A shuffle that is seeded by the rank as well
PermutationPerRank(self) ==
    IF self.shuffle
    THEN Shuffle(Arange(dataset_len), PCG64(self.seed + self.epoch + self.rank))
    ELSE Arange(dataset_len)

Permutation(self) ==
    IF self.shuffle
    THEN Shuffle(Arange(dataset_len), PCG64(self.seed + self.epoch))
    ELSE Arange(dataset_len)

BuildGlobalIndices(self) ==
    LET indices == Permutation(self)
    IN  IF ~self.drop_last
        THEN PadLoop(indices, self.total_size - Len(indices), indices)
        ELSE Prefix(indices, self.total_size)

\* ------------------------------------------------------- get_global_indices
GetGlobalIndices(self) ==
    IF self.global_indices_file # None
    THEN MemmapRead(disk[FsOf(self.rank)])
    ELSE Ok(BuildGlobalIndices(self))

\* ----------------------------------------------------------------- __iter__
\* torch.utils.data.get_worker_info(): None in the main process
NoWorker == [present |-> FALSE, id |-> 0, num_workers |-> 0]
Worker(w, n) == [present |-> TRUE, id |-> w, num_workers |-> n]

\* A start that each rank applies to its own slice: start_index entries of
\* every rank are skipped instead of start_index entries of the array
FromStartPerRank(self, indices) ==
    IF self.start_index > 0
    THEN SliceFrom(indices, self.start_index * self.world_size, 1)
    ELSE indices

\* indices[self.start_index :] when start_index > 0
FromStart(self, indices) ==
    IF self.start_index > 0 THEN SliceFrom(indices, self.start_index, 1) ELSE indices

\* A rank slice that takes a block of consecutive entries instead of a stride
RankSliceBlock(self, indices) ==
    Slice(indices, self.rank * (self.total_size \div self.world_size),
          (self.rank + 1) * (self.total_size \div self.world_size), 1)

\* indices[self.rank : self.total_size : self.world_size]
RankSlice(self, indices) ==
    Slice(indices, self.rank, self.total_size, self.world_size)

\* A worker slice that strides the flat rank-local list
WorkerSliceStrided(self, indices, worker_info) ==
    SliceFrom(indices, worker_info.id, worker_info.num_workers)

\* A worker slice whose left-overs go to every worker
WorkerSliceAllLeftOvers(self, indices, worker_info) ==
    LET truncated_size ==
            self.device_batch_size * (Len(indices) \div self.device_batch_size)
        batches ==
            SliceFrom(Reshape(Prefix(indices, truncated_size), self.device_batch_size),
                      worker_info.id, worker_info.num_workers)
    IN  Flatten(batches) \o SliceFrom(indices, truncated_size, 1)

\* The slice of one data loader worker: its whole batches, then its share of
\* the left-overs
WorkerSlice(self, indices, worker_info) ==
    LET truncated_size ==
            self.device_batch_size * (Len(indices) \div self.device_batch_size)
        left_overs ==
            SliceFrom(indices, truncated_size + worker_info.id, worker_info.num_workers)
        batches ==
            SliceFrom(Reshape(Prefix(indices, truncated_size), self.device_batch_size),
                      worker_info.id, worker_info.num_workers)
    IN  Flatten(batches) \o left_overs

IterIndices(self, global_indices, worker_info) ==
    LET indices == RankSlice(self, FromStart(self, global_indices))
    IN  IF worker_info.present
        THEN WorkerSlice(self, indices, worker_info)
        ELSE indices

\* Entry k of an array with its position: the positions a slice is made of
\* travel with the entries
Tag(a) == [k \in 1..Len(a) |-> << k - 1, a[k] >>]

\* The workers of one data loader: the main process when num_workers = 0
WorkerInfos ==
    IF cfg.num_workers = 0 THEN << NoWorker >>
    ELSE [k \in 1..cfg.num_workers |-> Worker(k - 1, cfg.num_workers)]

\* ----------------------------------------------------------------- actions
NoPass == [done |-> FALSE, epoch |-> 0, err |-> None, slices |-> <<>>]
NoBuild == [done |-> FALSE, epoch |-> 0, indices |-> <<>>]
Built(self) == [done |-> TRUE, epoch |-> self.epoch, indices |-> BuildGlobalIndices(self)]

\* A _build_and_save_global_indices in which every process writes the file
BuildAndSaveEveryRank(r, o) ==
    LET self == [o EXCEPT !.global_indices_file = "global_indices.npy"]
        n == FsOf(r)
    IN  /\ obj' = [obj EXCEPT ![r] = self]
        /\ built' = [built EXCEPT ![r] = Built(self)]
        /\ IF self.total_size = 0
           THEN /\ disk' = [disk EXCEPT ![n] = File(<<>>)]
                /\ pc' = [pc EXCEPT ![r] = "failed"]
                /\ UNCHANGED saves
           ELSE /\ disk' = [disk EXCEPT ![n] = File(ZeroFile(self.total_size))]
                /\ pc' = [pc EXCEPT ![r] = "saving"]
                /\ saves' = [saves EXCEPT ![n] = @ \cup {self.epoch}]

\* _build_and_save_global_indices on the process of rank r, whose object is o.
\* The local leader builds the array and maps the file with mode "w+", which
\* leaves it all zeros until Flush; mapping zero bytes raises, the file
\* left empty.
BuildAndSave(r, o) ==
    LET self == [o EXCEPT !.global_indices_file = "global_indices.npy"]
        n == FsOf(r)
    IN  /\ obj' = [obj EXCEPT ![r] = self]
        /\ IF self.local_rank = 0
           THEN /\ built' = [built EXCEPT ![r] = Built(self)]
                /\ IF self.total_size = 0
                   THEN /\ disk' = [disk EXCEPT ![n] = File(<<>>)]
                        /\ pc' = [pc EXCEPT ![r] = "failed"]
                        /\ UNCHANGED saves
                   ELSE /\ disk' = [disk EXCEPT ![n] = File(ZeroFile(self.total_size))]
                        /\ pc' = [pc EXCEPT ![r] = "saving"]
                        /\ saves' = [saves EXCEPT ![n] = @ \cup {self.epoch}]
           ELSE /\ pc' = [pc EXCEPT ![r] = "ready"]
                /\ UNCHANGED << built, disk, saves >>

\* DistributedSamplingDataset(...) on the process of rank r
Construct(r) ==
    /\ pc[r] = "start"
    /\ IF cfg.work_dir # None
       THEN BuildAndSave(r, NewObj(r))
       ELSE /\ obj' = [obj EXCEPT ![r] = NewObj(r)]
            /\ pc' = [pc EXCEPT ![r] = "ready"]
            /\ UNCHANGED << built, disk, saves >>
    /\ UNCHANGED << item_vars, hf_vars, dataset_len, cfg, out, taken >>

\* global_indices_mmap[:] = global_indices; flush(): the leader's write ends
Flush(r) ==
    /\ pc[r] = "saving"
    /\ disk' = [disk EXCEPT ![FsOf(r)] = File(Encode(built[r].indices))]
    /\ pc' = [pc EXCEPT ![r] = "ready"]
    /\ UNCHANGED << item_vars, hf_vars, dataset_len, cfg, obj, out, built, saves, taken >>

\* A reshuffle that starts the new epoch at its first entry
ReshuffleFromStart(r, epoch) ==
    /\ pc[r] = "ready"
    /\ out' = [out EXCEPT ![r] = NoPass]
    /\ taken' = [taken EXCEPT ![r] = <<>>]
    /\ LET self == [obj[r] EXCEPT !.epoch = epoch, !.start_index = 0]
       IN  IF self.work_dir # None
           THEN BuildAndSave(r, self)
           ELSE /\ obj' = [obj EXCEPT ![r] = self]
                /\ built' = [built EXCEPT ![r] = NoBuild]
                /\ UNCHANGED << pc, disk, saves >>
    /\ UNCHANGED << item_vars, hf_vars, dataset_len, cfg >>

\* A reshuffle that sets the epoch and leaves the file as it is
ReshuffleNoSave(r, epoch) ==
    /\ pc[r] = "ready"
    /\ out' = [out EXCEPT ![r] = NoPass]
    /\ taken' = [taken EXCEPT ![r] = <<>>]
    /\ obj' = [obj EXCEPT ![r].epoch = epoch]
    /\ built' = [built EXCEPT ![r] = NoBuild]
    /\ UNCHANGED << item_vars, hf_vars, dataset_len, cfg, pc, disk, saves >>

\* reshuffle(epoch) on the process of rank r. The pass of the epoch before
\* is over: out[r] and built[r] speak of the current epoch only.
Reshuffle(r, epoch) ==
    /\ pc[r] = "ready"
    /\ out' = [out EXCEPT ![r] = NoPass]
    /\ taken' = [taken EXCEPT ![r] = <<>>]
    /\ LET self == [obj[r] EXCEPT !.epoch = epoch]
       IN  IF self.work_dir # None
           THEN BuildAndSave(r, self)
           ELSE /\ obj' = [obj EXCEPT ![r] = self]
                /\ built' = [built EXCEPT ![r] = NoBuild]
                /\ UNCHANGED << pc, disk, saves >>
    /\ UNCHANGED << item_vars, hf_vars, dataset_len, cfg >>

\* An __iter__ that keeps its place on the object: the next pass starts
\* where this one ends
IterPassCursor(r) ==
    /\ pc[r] = "ready"
    /\ LET self == obj[r]
           indices == GetGlobalIndices(self)
       IN  /\ out' = [out EXCEPT ![r] =
                 [ done |-> TRUE, epoch |-> self.epoch, err |-> indices.err,
                   slices |-> IF indices.err # None THEN <<>>
                              ELSE [k \in 1..Len(WorkerInfos) |->
                                       IterIndices(self, Tag(indices.val), WorkerInfos[k])] ]]
           /\ built' = IF self.global_indices_file = None
                       THEN [built EXCEPT ![r] = Built(self)]
                       ELSE built
           /\ obj' = [obj EXCEPT ![r].start_index =
                         IF indices.err # None THEN @ ELSE @ + self.world_size]
    /\ taken' = [taken EXCEPT ![r] = [k \in 1..Len(out'[r].slices) |-> 0]]
    /\ UNCHANGED << item_vars, hf_vars, dataset_len, cfg, pc, disk, saves >>

\* One pass of rank r's data loader: __iter__ in each of its workers, or in
\* the main process
IterPass(r) ==
    /\ pc[r] = "ready"
    /\ LET self == obj[r]
           indices == GetGlobalIndices(self)
       IN  /\ out' = [out EXCEPT ![r] =
                 [ done |-> TRUE, epoch |-> self.epoch, err |-> indices.err,
                   slices |-> IF indices.err # None THEN <<>>
                              ELSE [k \in 1..Len(WorkerInfos) |->
                                       IterIndices(self, Tag(indices.val), WorkerInfos[k])] ]]
           /\ built' = IF self.global_indices_file = None
                       THEN [built EXCEPT ![r] = Built(self)]
                       ELSE built
    /\ taken' = [taken EXCEPT ![r] = [k \in 1..Len(out'[r].slices) |-> 0]]
    /\ UNCHANGED << item_vars, hf_vars, dataset_len, cfg, obj, pc, disk, saves >>

\* next() on generator k of rank r's latest pass: the generator of __iter__
\* hands out self._get_dataset_item(int(idx)) for its next idx. Its place is
\* the generator's own.
GetDatasetItem(r, k) ==
    /\ out[r].done
    /\ taken[r][k] < Len(out[r].slices[k])
    /\ taken' = [taken EXCEPT ![r][k] = @ + 1]
    /\ UNCHANGED << item_vars, hf_vars, dataset_len, cfg, obj, pc, disk, out, built, saves >>

\* ---------------------------------------------------------- HuggingFaceSync
\* A path relative to model_save_folder: ba<batch>-rank<rank>.pt, in the
\* folder itself or in a folder below it
CheckpointFile(batch, rank) == [sub |-> FALSE, batch |-> batch, rank |-> rank]
Paths == [sub : BOOLEAN, batch : 0..MaxSteps, rank : Ranks]

\* The local files whether uploaded or not
GetNewCheckpointFilesAll(r) ==
    { path \in model_save_folder : path.rank = 0 /\ ~path.sub }

\* _get_new_checkpoint_files: the files named *-rank0.pt of the main folder
\* that are not in uploaded_files
GetNewCheckpointFiles(r) ==
    LET local_files == { path \in model_save_folder : path.rank = 0 /\ ~path.sub }
    IN  local_files \ uploaded_files[r]

\* sorted(new_files): the names differ in their batch alone
RECURSIVE Sorted(_)
Sorted(files) ==
    IF files = {} THEN <<>>
    ELSE LET first == CHOOSE f \in files : \A g \in files : f.batch <= g.batch
         IN  << first >> \o Sorted(files \ {first})

\* _sync_to_hub on the process of rank r, the first ok calls of
\* api.upload_file returning and the next one, if there is one, raising:
\* the files added to uploaded_files, and whether the method raised
SyncToHub(r, ok) ==
    IF r # 0 THEN [added |-> {}, raised |-> FALSE]
    ELSE LET new_files == GetNewCheckpointFiles(r)
             todo == Sorted(new_files)
         IN  IF new_files = {} THEN [added |-> {}, raised |-> FALSE]
             ELSE [ added |-> { todo[k] : k \in 1..Min(ok, Len(todo)) },
                    raised |-> ok < Len(todo) ]

\* The body the three handlers share
OnCheckpoint(r) ==
    /\ training[r] = "running"
    /\ LET current_checkpoint == timestamp
       IN  IF current_checkpoint # last_checkpoint[r]
           THEN \E ok \in 0..Cardinality(GetNewCheckpointFiles(r)) :
                   LET sync == SyncToHub(r, ok)
                   IN  /\ uploaded_files' = [uploaded_files EXCEPT ![r] = @ \cup sync.added]
                       /\ uploads' = [uploads EXCEPT ![r] =
                             [f \in Paths |-> IF f \in sync.added THEN @[f] + 1 ELSE @[f]]]
                       /\ IF sync.raised
                          THEN /\ training' = [training EXCEPT ![r] = "raised"]
                               /\ UNCHANGED last_checkpoint
                          ELSE /\ last_checkpoint' =
                                     [last_checkpoint EXCEPT ![r] = current_checkpoint]
                               /\ UNCHANGED training
           ELSE UNCHANGED << uploaded_files, uploads, training, last_checkpoint >>
    /\ UNCHANGED << timestamp, model_save_folder >>
    /\ UNCHANGED << dataset_len, cfg, obj, pc, disk, out, built, saves, taken, item_vars >>

BatchCheckpoint(r) == OnCheckpoint(r)
IterationCheckpoint(r) == OnCheckpoint(r)
EpochCheckpoint(r) == OnCheckpoint(r)

\* The trainer ends a batch
TrainBatch ==
    /\ timestamp < MaxSteps
    /\ \A r \in Ranks : training[r] = "running"
    /\ timestamp' = timestamp + 1
    /\ UNCHANGED << model_save_folder, uploaded_files, last_checkpoint, uploads, training >>
    /\ UNCHANGED << dataset_len, cfg, obj, pc, disk, out, built, saves, taken, item_vars >>

\* The trainer saves the checkpoint of the batch: a file a rank
SaveCheckpoint ==
    /\ \A r \in Ranks : training[r] = "running"
    /\ model_save_folder' =
          model_save_folder \cup { CheckpointFile(timestamp, r) : r \in Ranks }
    /\ UNCHANGED << timestamp, uploaded_files, last_checkpoint, uploads, training >>
    /\ UNCHANGED << dataset_len, cfg, obj, pc, disk, out, built, saves, taken, item_vars >>

\* -------------------------------------------------------------- __getitem__
\* The columns whose values are np.ndarray
ArrayColumns == {"input_ids", "attention_mask"}

\* StreamingTextDataset._tokenize
StreamingTokenize ==
    IF text_dataset.tokenizer = None THEN RaisedItem("AttributeError")
    ELSE IF text_dataset.tokenizer = "no_pad_token" THEN RaisedItem("RuntimeError")
    ELSE ReturnedItem({"input_ids", "attention_mask"}, text_dataset.max_seq_len)

\* StreamingTextDataset._read_binary_tokenized_sample: padded or cut to
\* max_seq_len
ReadBinaryTokenizedSample ==
    LET pad_len == text_dataset.max_seq_len - sample.len
    IN  IF pad_len > 0 /\ text_dataset.tokenizer = None THEN RaisedItem("AttributeError")
        ELSE ReturnedItem({"input_ids", "attention_mask", "token_type_ids"},
                          text_dataset.max_seq_len)

\* StreamingTextDataset.__getitem__
StreamingGetItem ==
    IF "text" \in sample.columns THEN StreamingTokenize
    ELSE IF "input_ids" \in sample.columns THEN ReadBinaryTokenizedSample
    ELSE RaisedItem("RuntimeError")

\* NoStreamingDataset._tokenize
NoStreamingTokenize ==
    IF text_dataset.tokenizer = None THEN RaisedItem("AssertionError")
    ELSE IF text_dataset.tokenizer = "no_pad_token" THEN RaisedItem("RuntimeError")
    ELSE ReturnedItem({"input_ids", "attention_mask"}, text_dataset.max_seq_len)

\* NoStreamingDataset.__getitem__: the last branch makes a RuntimeError and
\* does not raise it, the method ends and returns None
NoStreamingGetItem ==
    IF "input_ids" \in sample.columns
    THEN ReturnedItem((sample.columns \cap ArrayColumns) \cup {"attention_mask"},
                      Min(sample.len, text_dataset.max_seq_len))
    ELSE IF "text" \in sample.columns THEN NoStreamingTokenize
    ELSE ReturnedNone

GetItem(c) ==
    /\ item' = [item EXCEPT ![c] =
          IF c = "StreamingTextDataset" THEN StreamingGetItem ELSE NoStreamingGetItem]
    /\ UNCHANGED << sample, text_dataset >>
    /\ UNCHANGED << dataset_len, cfg, obj, pc, disk, out, built, saves, taken, hf_vars >>

\* ---------------------------------------------------------- specifications
\* nproc_per_node processes a node; with several nodes the work_dir is on a
\* file system they share, or on each node's own
Layouts(world_size) ==
    { [nproc_per_node |-> g, shared_fs |-> s] :
        g \in 1..world_size, s \in BOOLEAN } \
    { [nproc_per_node |-> world_size, shared_fs |-> FALSE] }

Config(world_size, device_batch_size, start_index, epoch, shuffle, drop_last, work_dir, num_workers, layout) ==
    [ global_batch_size |-> device_batch_size * world_size,
      seed |-> ShuffleSeed,
      epoch |-> epoch,
      start_index |-> start_index,
      shuffle |-> shuffle,
      drop_last |-> drop_last,
      world_size |-> world_size,
      work_dir |-> work_dir,
      num_workers |-> num_workers,
      nproc_per_node |-> layout.nproc_per_node,
      shared_fs |-> layout.shared_fs ]

BlankObj ==
    [ seed |-> 0, epoch |-> 0, start_index |-> 0, shuffle |-> FALSE,
      drop_last |-> FALSE, rank |-> 0, local_rank |-> 0, world_size |-> 1,
      total_size |-> 0, device_batch_size |-> 1, work_dir |-> None,
      global_indices_file |-> None ]

\* The job: every process constructs its dataset, then reshuffles (the
\* trainer's epoch counter never goes back) and iterates; nothing orders
\* the processes
Init ==
    /\ dataset_len \in 1..MaxLen
    /\ \E world_size \in 1..MaxWorld, shuffle \in BOOLEAN, drop_last \in BOOLEAN,
          work_dir \in {None, "work_dir"} :
          \E layout \in Layouts(world_size) :
             cfg = Config(world_size, 1, 0, 0, shuffle, drop_last, work_dir, 0, layout)
    /\ obj = [r \in Ranks |-> BlankObj]
    /\ pc = [r \in Ranks |-> "start"]
    /\ disk = [n \in FileSystems |-> NoFile]
    /\ out = [r \in Ranks |-> NoPass]
    /\ built = [r \in Ranks |-> NoBuild]
    /\ saves = [n \in FileSystems |-> {}]
    /\ taken = [r \in Ranks |-> <<>>]
    /\ NoCallback
    /\ NoSample

Next ==
    \/ \E r \in Ranks : Construct(r)
    \/ \E r \in Ranks : Flush(r)
    \/ \E r \in Ranks : \E epoch \in obj[r].epoch..MaxEpoch : Reshuffle(r, epoch)
    \/ \E r \in Ranks : IterPass(r)

Spec == Init /\ [][Next]_vars

\* The partitioner alone: the datasets constructed without a work_dir, every
\* batch size, start index and number of workers
InitPartition ==
    /\ dataset_len \in 1..MaxLen
    /\ \E world_size \in 1..MaxWorld, device_batch_size \in 1..MaxBatch,
          start_index \in 0..MaxStart, epoch \in Epochs, shuffle \in BOOLEAN,
          drop_last \in BOOLEAN, num_workers \in 0..MaxWorkers :
          cfg = Config(world_size, device_batch_size, start_index, epoch, shuffle,
                       drop_last, None, num_workers,
                       [nproc_per_node |-> world_size, shared_fs |-> TRUE])
    /\ obj = [r \in Ranks |-> NewObj(r)]
    /\ pc = [r \in Ranks |-> "ready"]
    /\ disk = [n \in FileSystems |-> NoFile]
    /\ out = [r \in Ranks |-> NoPass]
    /\ built = [r \in Ranks |-> NoBuild]
    /\ saves = [n \in FileSystems |-> {}]
    /\ taken = [r \in Ranks |-> <<>>]
    /\ NoCallback
    /\ NoSample

NextPartition == \E r \in Ranks : IterPass(r)

SpecPartition == InitPartition /\ [][NextPartition]_vars

\* _build_global_indices() on the object of rank r
BuildIndices(r) ==
    /\ pc[r] = "ready"
    /\ built' = [built EXCEPT ![r] = Built(obj[r])]
    /\ UNCHANGED << item_vars, hf_vars, dataset_len, cfg, obj, pc, disk, out, saves, taken >>

\* The generator of the array alone, for worlds larger than the dataset
InitPad ==
    /\ dataset_len \in 1..MaxLen
    /\ \E world_size \in 1..MaxPadWorld, epoch \in Epochs, shuffle \in BOOLEAN,
          drop_last \in BOOLEAN :
          cfg = Config(world_size, 1, 0, epoch, shuffle, drop_last, None, 0,
                       [nproc_per_node |-> world_size, shared_fs |-> TRUE])
    /\ obj = [r \in Ranks |-> NewObj(r)]
    /\ pc = [r \in Ranks |-> "ready"]
    /\ disk = [n \in FileSystems |-> NoFile]
    /\ out = [r \in Ranks |-> NoPass]
    /\ built = [r \in Ranks |-> NoBuild]
    /\ saves = [n \in FileSystems |-> {}]
    /\ taken = [r \in Ranks |-> <<>>]
    /\ NoCallback
    /\ NoSample

NextPad == \E r \in Ranks : BuildIndices(r)

SpecPad == InitPad /\ [][NextPad]_vars

\* The file an earlier job over the same dataset left in the work_dir: its
\* array of epoch 0, generated for a world of world_size processes
EarlierRun(world_size) ==
    File(Encode(BuildGlobalIndices(
        [NewObj(0) EXCEPT !.world_size = world_size,
                          !.total_size = TotalSize(dataset_len, world_size, cfg.drop_last)])))

\* What the work_dir can hold when a job starts: nothing, or the file of an
\* earlier job
WorkDirAtStart ==
    IF cfg.work_dir = None THEN {NoFile}
    ELSE {NoFile} \cup {EarlierRun(world_size) : world_size \in 1..MaxWorld}

\* A job that resumes on one node, shuffling and padding: start_index is
\* wherever the earlier job stopped, and the work_dir is as that job left it
InitResume ==
    /\ dataset_len \in 1..MaxLen
    /\ \E world_size \in 1..MaxWorld, start_index \in 0..MaxStart,
          work_dir \in {None, "work_dir"} :
          cfg = Config(world_size, 1, start_index, 0, TRUE, FALSE, work_dir, 0,
                       [nproc_per_node |-> world_size, shared_fs |-> TRUE])
    /\ obj = [r \in Ranks |-> BlankObj]
    /\ pc = [r \in Ranks |-> "start"]
    /\ disk \in [FileSystems -> WorkDirAtStart]
    /\ out = [r \in Ranks |-> NoPass]
    /\ built = [r \in Ranks |-> NoBuild]
    /\ saves = [n \in FileSystems |-> {}]
    /\ taken = [r \in Ranks |-> <<>>]
    /\ NoCallback
    /\ NoSample

\* The data loaders draw from their generators and may leave them part-way
NextResume ==
    \/ \E r \in Ranks : Construct(r)
    \/ \E r \in Ranks : Flush(r)
    \/ \E r \in Ranks : \E epoch \in obj[r].epoch..MaxEpoch : Reshuffle(r, epoch)
    \/ \E r \in Ranks : IterPass(r)
    \/ \E r \in Ranks : \E k \in 1..Len(taken[r]) : GetDatasetItem(r, k)

SpecResume == InitResume /\ [][NextResume]_vars

\* The callbacks after construction: uploaded_files is the listing of the
\* repository, which may hold the first checkpoint of an earlier job; the
\* folder holds a checkpoint in a folder below it
InitHf ==
    /\ dataset_len = 1
    /\ \E world_size \in 1..MaxWorld :
          cfg = Config(world_size, 1, 0, 0, FALSE, FALSE, None, 0,
                       [nproc_per_node |-> world_size, shared_fs |-> TRUE])
    /\ obj = [r \in Ranks |-> BlankObj]
    /\ pc = [r \in Ranks |-> "start"]
    /\ disk = [n \in FileSystems |-> NoFile]
    /\ out = [r \in Ranks |-> NoPass]
    /\ built = [r \in Ranks |-> NoBuild]
    /\ saves = [n \in FileSystems |-> {}]
    /\ taken = [r \in Ranks |-> <<>>]
    /\ timestamp = 0
    /\ model_save_folder = { [sub |-> TRUE, batch |-> 0, rank |-> 0] }
    /\ \E listing \in SUBSET { CheckpointFile(0, 0) } :
          uploaded_files = [r \in Ranks |-> listing]
    /\ last_checkpoint = [r \in Ranks |-> NoCheckpoint]
    /\ uploads = [r \in Ranks |-> [f \in Paths |-> 0]]
    /\ training = [r \in Ranks |-> "running"]
    /\ NoSample

NextHf ==
    \/ TrainBatch
    \/ SaveCheckpoint
    \/ \E r \in Ranks : BatchCheckpoint(r)
    \/ \E r \in Ranks : IterationCheckpoint(r)
    \/ \E r \in Ranks : EpochCheckpoint(r)

SpecHf == InitHf /\ [][NextHf]_vars

\* A sample of the shards, a dataset of each class over them
InitGetItem ==
    /\ dataset_len = 1
    /\ cfg = Config(1, 1, 0, 0, FALSE, FALSE, None, 0,
                    [nproc_per_node |-> 1, shared_fs |-> TRUE])
    /\ obj = [r \in Ranks |-> BlankObj]
    /\ pc = [r \in Ranks |-> "start"]
    /\ disk = [n \in FileSystems |-> NoFile]
    /\ out = [r \in Ranks |-> NoPass]
    /\ built = [r \in Ranks |-> NoBuild]
    /\ saves = [n \in FileSystems |-> {}]
    /\ taken = [r \in Ranks |-> <<>>]
    /\ NoCallback
    /\ \E columns \in SUBSET {"input_ids", "attention_mask", "text", "label"},
          len \in 0..MaxTokens :
          sample = [columns |-> columns, len |-> len]
    /\ \E max_seq_len \in 1..MaxSeqLen, tokenizer \in {None, "no_pad_token", "pad_token"} :
          text_dataset = [max_seq_len |-> max_seq_len, tokenizer |-> tokenizer]
    /\ item = [c \in DatasetClasses |-> NotCalled]

NextGetItem == \E c \in DatasetClasses : GetItem(c)

SpecGetItem == InitGetItem /\ [][NextGetItem]_vars

\* ------------------------------------------------------------------ claims
\* Every (rank, worker slice, place) of the passes made so far
Yields ==
    UNION { UNION { { << r, w, k >> : k \in 1..Len(out[r].slices[w]) } :
                    w \in 1..Len(out[r].slices) } : r \in Ranks }

\* How often array position p was handed out
TimesYielded(p) ==
    Cardinality({ y \in Yields : out[y[1]].slices[y[2]][y[3]][1] = p })

AllPassesDone == \A r \in Ranks : out[r].done /\ out[r].err = None

\* What rank r iterates when it has no workers
RankLocal(r) == IterIndices(obj[r], Tag(built[r].indices), NoWorker)

\* C1: with start_index = 0 rank r is given exactly the entries at array
\* positions r, r + world_size, r + 2*world_size, ... in that order:
\* total_size / world_size of them, no position goes to two ranks, and entry
\* k of rank r put back at position k*world_size + r gives the array again.
C1_RankStride ==
    cfg.start_index = 0 =>
      /\ \A r \in Ranks : out[r].done =>
           LET a == built[r].indices
               n == obj[r].total_size \div cfg.world_size
               mine == { y \in Yields : y[1] = r }
           IN  /\ Len(a) = obj[r].total_size
               /\ n * cfg.world_size = obj[r].total_size
               /\ Cardinality(mine) = n
               /\ { out[r].slices[y[2]][y[3]] : y \in mine } =
                     { << k * cfg.world_size + r, a[k * cfg.world_size + r + 1] >> :
                          k \in 0..(n - 1) }
               /\ cfg.num_workers = 0 =>
                    out[r].slices[1] =
                       [k \in 1..n |-> << (k - 1) * cfg.world_size + r,
                                          a[(k - 1) * cfg.world_size + r + 1] >>]
      /\ \A y, z \in Yields :
           out[y[1]].slices[y[2]][y[3]][1] = out[z[1]].slices[z[2]][z[3]][1]
              => y[1] = z[1]
      /\ (AllPassesDone /\ cfg.num_workers = 0) =>
           LET a == built[0].indices
           IN  [p \in 1..Len(a) |->
                   out[(p - 1) % cfg.world_size].slices[1]
                      [((p - 1) \div cfg.world_size) + 1][2]] = a

C1_Witness ==
    /\ AllPassesDone
    /\ cfg.start_index = 0 /\ cfg.num_workers = 0 /\ cfg.world_size >= 2
    /\ cfg.shuffle /\ obj[0].total_size >= 4
    /\ built[0].indices # Arange(obj[0].total_size)

\* C2: worker w of num_workers is given the whole batches b of the rank-local
\* list L with b mod num_workers = w, in increasing b and each in its order,
\* then the left-overs L[truncated + w :: num_workers]; so its k-th chunk of
\* device_batch_size entries is batch w + k*num_workers, and the chunks taken
\* round-robin from the workers give L[0 .. truncated-1] back.
C2_WorkerBatches ==
    \A r \in Ranks : (out[r].done /\ cfg.num_workers >= 1) =>
       LET L == RankLocal(r)
           B == obj[r].device_batch_size
           W == cfg.num_workers
           nb == Len(L) \div B
           truncated == B * nb
       IN  /\ \A w \in 0..(W - 1) :
                LET s == out[r].slices[w + 1]
                    mb == Cardinality({ b \in 0..(nb - 1) : b % W = w })
                    ml == Cardinality({ p \in truncated..(Len(L) - 1) :
                                           (p - truncated) % W = w })
                IN  /\ Len(s) = mb * B + ml
                    /\ \A k \in 0..(mb - 1) : \A i \in 0..(B - 1) :
                          s[k * B + i + 1] = L[(w + k * W) * B + i + 1]
                    /\ \A j \in 0..(ml - 1) :
                          s[mb * B + j + 1] = L[truncated + w + j * W + 1]
           /\ \A b \in 0..(nb - 1) :
                SubSeq(out[r].slices[(b % W) + 1], (b \div W) * B + 1, (b \div W) * B + B)
                   = SubSeq(L, b * B + 1, b * B + B)

C2_Witness ==
    \E r \in Ranks :
       /\ out[r].done /\ cfg.num_workers >= 2 /\ obj[r].device_batch_size >= 2
       /\ Len(RankLocal(r)) \div obj[r].device_batch_size >= 2
       /\ Len(RankLocal(r)) % obj[r].device_batch_size # 0
       /\ Len(out[r].slices[1]) > Len(out[r].slices[2])

\* C3: with start_index = 0 every position of the global index array is
\* handed to exactly one (rank, worker) and there once, left-overs and
\* fewer batches than workers included; nothing else is handed out.
C3_ExactCover ==
    (cfg.start_index = 0 /\ AllPassesDone) =>
       /\ \A p \in 0..(obj[0].total_size - 1) : TimesYielded(p) = 1
       /\ \A y \in Yields :
            LET e == out[y[1]].slices[y[2]][y[3]]
            IN  /\ e[1] \in 0..(obj[0].total_size - 1)
                /\ e[2] = built[0].indices[e[1] + 1]

C3_Witness ==
    /\ AllPassesDone
    /\ cfg.start_index = 0 /\ cfg.world_size >= 2 /\ cfg.num_workers >= 2
    /\ \E r \in Ranks :
          /\ Len(RankLocal(r)) % obj[r].device_batch_size # 0
          /\ Len(RankLocal(r)) \div obj[r].device_batch_size < cfg.num_workers
          /\ Len(RankLocal(r)) \div obj[r].device_batch_size >= 1

\* C7: with start_index a positive multiple of global_batch_size, rank r
\* iterates what it iterates with start_index = 0 less its first
\* start_index / world_size entries; over all ranks the positions
\* start_index .. total_size-1 are handed out once each and no position below
\* start_index is.
DropFirst(a, n) == [k \in 1..(IF Len(a) > n THEN Len(a) - n ELSE 0) |-> a[k + n]]

C7_Resume ==
    (cfg.start_index > 0 /\ cfg.start_index % cfg.global_batch_size = 0) =>
       /\ \A r \in Ranks : (out[r].done /\ cfg.num_workers = 0) =>
            out[r].slices[1] =
               DropFirst(IterIndices([obj[r] EXCEPT !.start_index = 0],
                                     Tag(built[r].indices), NoWorker),
                         cfg.start_index \div cfg.world_size)
       /\ AllPassesDone =>
            /\ \A p \in cfg.start_index..(obj[0].total_size - 1) : TimesYielded(p) = 1
            /\ \A y \in Yields :
                 out[y[1]].slices[y[2]][y[3]][1] \in
                    cfg.start_index..(obj[0].total_size - 1)

C7_Witness ==
    /\ AllPassesDone
    /\ cfg.start_index > 0 /\ cfg.start_index % cfg.global_batch_size = 0
    /\ cfg.world_size >= 2 /\ cfg.num_workers = 0
    /\ \A r \in Ranks : Len(out[r].slices[1]) >= 2

\* C4: with drop_last = false total_size is ceil(length / world_size) *
\* world_size, the least multiple of world_size that is >= length; the
\* generated array has total_size entries, each in [0, length), and every
\* index 0..length-1 is among them.
C4_PaddedArray ==
    ~cfg.drop_last =>
       \A r \in Ranks :
          LET total == obj[r].total_size
              a == built[r].indices
          IN  /\ total % cfg.world_size = 0
              /\ total >= dataset_len
              /\ total - dataset_len < cfg.world_size
              /\ built[r].done =>
                   /\ Len(a) = total
                   /\ \A k \in 1..Len(a) : a[k] \in 0..(dataset_len - 1)
                   /\ \A i \in 0..(dataset_len - 1) : \E k \in 1..Len(a) : a[k] = i

C4_Witness ==
    /\ ~cfg.drop_last /\ cfg.shuffle
    /\ \E r \in Ranks :
          /\ built[r].done
          /\ obj[r].total_size > dataset_len
          /\ dataset_len >= 3
          /\ Prefix(built[r].indices, dataset_len) # Arange(dataset_len)

\* C5: with drop_last = true and length >= world_size, num_samples is
\* ceil((length - world_size) / world_size) when world_size does not divide
\* length and length / world_size when it does; total_size = num_samples *
\* world_size <= length, and the generated array is the first total_size
\* entries of the permutation: total_size pairwise distinct indices of
\* [0, length).  (length 17, world_size 4, no shuffle: 16 and 0..15.)
C5_TruncatedArray ==
    /\ TotalSize(17, 4, TRUE) = 16
    /\ NumSamples(17, 4, TRUE) = 4
    /\ (cfg.drop_last /\ dataset_len >= cfg.world_size) =>
         \A r \in Ranks :
            LET total == obj[r].total_size
                n == total \div cfg.world_size
                a == built[r].indices
            IN  /\ total = n * cfg.world_size
                /\ dataset_len % cfg.world_size # 0 =>
                      /\ n * cfg.world_size >= dataset_len - cfg.world_size
                      /\ (n - 1) * cfg.world_size < dataset_len - cfg.world_size
                /\ dataset_len % cfg.world_size = 0 => total = dataset_len
                /\ total <= dataset_len
                /\ built[r].done =>
                     /\ Len(a) = total
                     /\ \A k \in 1..total : a[k] = Permutation(obj[r])[k]
                     /\ \A k \in 1..total : a[k] \in 0..(dataset_len - 1)
                     /\ \A j, k \in 1..total : a[j] = a[k] => j = k
                     /\ ~cfg.shuffle => a = Arange(total)

C5_Witness ==
    /\ cfg.drop_last /\ cfg.shuffle /\ dataset_len >= cfg.world_size
    /\ dataset_len % cfg.world_size # 0
    /\ \E r \in Ranks :
          /\ built[r].done
          /\ Len(built[r].indices) >= 4
          /\ built[r].indices # Arange(Len(built[r].indices))

\* C6: two calls of _build_global_indices for the same dataset length, seed,
\* epoch, shuffle, drop_last and world_size return the same array entry for
\* entry, whichever processes make them (any rank, any local rank) and
\* whatever each process did before.
C6_Deterministic ==
    \A p, q \in Ranks :
       (built[p].done /\ built[q].done /\ built[p].epoch = built[q].epoch)
          => built[p].indices = built[q].indices

C6_Witness ==
    /\ cfg.shuffle
    /\ \E p, q \in Ranks :
          /\ p # q
          /\ built[p].done /\ built[q].done
          /\ built[p].epoch = MaxEpoch /\ built[q].epoch = MaxEpoch
          /\ Len(built[p].indices) >= 4
          /\ built[p].indices # BuildGlobalIndices([obj[p] EXCEPT !.epoch = 0])

\* The callers' barrier for epoch e: every process has constructed its
\* dataset or called reshuffle(e), and no leader is still writing
Barrier(e) == \A r \in Ranks : pc[r] = "ready" /\ obj[r].epoch = e

\* The array generated for (seed, e)
ArrayFor(e) == BuildGlobalIndices([NewObj(0) EXCEPT !.epoch = e])

\* A pass of rank r's data loader over the array a in epoch e
PassOver(r, a, e) ==
    [ done |-> TRUE, epoch |-> e, err |-> None,
      slices |-> [k \in 1..Len(WorkerInfos) |->
                     IterIndices(obj[r], Tag(a), WorkerInfos[k])] ]

\* C8: once every process has called reshuffle(e) (or was constructed with
\* epoch e) and the leaders' writes are over, the file (when a work_dir is
\* configured) holds the array generated for (seed, e), not that of an
\* earlier epoch, and every pass that starts then runs over that array, on
\* every process, with or without work_dir.
C8_ReshuffleThenIterate ==
    [][ \A e \in Epochs : Barrier(e) =>
           /\ cfg.work_dir # None =>
                \A n \in FileSystems : disk[n] = File(Encode(ArrayFor(e)))
           /\ \A r \in Ranks :
                GetGlobalIndices(obj[r]) = Ok(ArrayFor(e))
           /\ \A r \in Ranks :
                (out'[r].done /\ out'[r] # out[r])
                   => out'[r] = PassOver(r, ArrayFor(e), e) ]_vars

C8_Witness ==
    /\ Barrier(MaxEpoch)
    /\ cfg.work_dir # None /\ cfg.shuffle /\ cfg.world_size >= 2
    /\ ArrayFor(MaxEpoch) # ArrayFor(0)
    /\ \E r \in Ranks :
          /\ obj[r].local_rank # 0
          /\ out[r] = PassOver(r, ArrayFor(MaxEpoch), MaxEpoch)
          /\ Len(out[r].slices[1]) >= 2

\* C9: the files sharing one location have a single writer and are written
\* once an epoch: no process starts writing a file for an epoch it has
\* already been written for, by itself or by another process.
C9_SingleWriterOncePerEpoch ==
    [][ \A r \in Ranks :
           (pc[r] # "saving" /\ pc'[r] = "saving")
              => obj'[r].epoch \notin saves[FsOf(r)] ]_vars

\* The local leaders that write the file rank r reads have written it for
\* rank r's epoch
LeaderPersisted(r) ==
    \A q \in Ranks :
       (FsOf(q) = FsOf(r) /\ LocalRank(q) = 0)
          => (pc[q] = "ready" /\ obj[q].epoch = obj[r].epoch)

\* C10: once the leader has persisted the array of the current epoch,
\* get_global_indices returns, on every process reading that file, total_size
\* entries of 32 bits each (the file is 4 * total_size bytes, no header) that
\* equal entry for entry what _build_global_indices returns in memory, so a
\* worker's slice is the same with the file and without.
C10_RoundTrip ==
    \A r \in Ranks :
       (pc[r] = "ready" /\ obj[r].global_indices_file # None /\ LeaderPersisted(r)) =>
          LET f == disk[FsOf(r)]
              loaded == GetGlobalIndices(obj[r])
              in_memory == GetGlobalIndices([obj[r] EXCEPT !.global_indices_file = None])
          IN  /\ f.exists
              /\ Len(f.bytes) = 4 * obj[r].total_size
              /\ \A k \in 1..Len(f.bytes) : f.bytes[k] \in 0..255
              /\ loaded.err = None
              /\ Len(loaded.val) = obj[r].total_size
              /\ loaded = in_memory
              /\ loaded.val = BuildGlobalIndices(obj[r])
              /\ \A k \in 1..Len(WorkerInfos) :
                    IterIndices(obj[r], loaded.val, WorkerInfos[k])
                       = IterIndices(obj[r], in_memory.val, WorkerInfos[k])

C10_Witness ==
    /\ cfg.shuffle /\ cfg.world_size >= 2
    /\ \E r \in Ranks :
          /\ obj[r].local_rank # 0
          /\ pc[r] = "ready" /\ obj[r].global_indices_file # None
          /\ LeaderPersisted(r)
          /\ obj[r].epoch = MaxEpoch
          /\ obj[r].total_size >= 4
          /\ out[r].done /\ out[r].err = None
          /\ out[r].slices[1] =
                IterIndices(obj[r], Tag(BuildGlobalIndices(obj[r])), NoWorker)
          /\ BuildGlobalIndices(obj[r]) # Arange(obj[r].total_size)

\* C11: loading the persisted file fails whenever the number of entries the
\* file implies differs from the total_size of the loading process (a file
\* left by a job with another world size, a truncated file):
\* get_global_indices never returns an array of another length.
C11_LoadChecksSize ==
    \A r \in Ranks :
       (pc[r] = "ready" /\ obj[r].global_indices_file # None) =>
          LET f == disk[FsOf(r)]
              loaded == GetGlobalIndices(obj[r])
          IN  /\ (f.exists /\ Len(f.bytes) # 4 * obj[r].total_size) => loaded.err # None
              /\ loaded.err = None => Len(loaded.val) = obj[r].total_size

\* C12: with drop_last = true and fewer items than processes, setup fails:
\* no process comes out of the construction of its dataset with
\* total_size = 0, _build_global_indices returns no empty array and no pass
\* runs over an empty rank-local sequence.
C12_ConfigError ==
    (cfg.drop_last /\ dataset_len < cfg.world_size) =>
       \A r \in Ranks :
          /\ ~(pc[r] = "ready" /\ obj[r].total_size = 0)
          /\ ~(built[r].done /\ built[r].indices = <<>>)
          /\ ~(out[r].done /\ out[r].err = None /\ out[r].slices = << <<>> >>)

\* What __iter__ gives the data loader of the object self when the file of
\* its work_dir is f
PassOf(self, f) ==
    LET indices == IF self.global_indices_file # None
                   THEN MemmapRead(f)
                   ELSE Ok(BuildGlobalIndices(self))
    IN  [ done |-> TRUE, epoch |-> self.epoch, err |-> indices.err,
          slices |-> IF indices.err # None THEN <<>>
                     ELSE [k \in 1..Len(WorkerInfos) |->
                              IterIndices(self, Tag(indices.val), WorkerInfos[k])] ]

\* The step is a pass of rank r: new generators, none drawn from yet
PassStep(r) ==
    /\ out'[r].done
    /\ \A k \in 1..Len(taken'[r]) : taken'[r][k] = 0
    /\ out'[r] # out[r] \/ built'[r] # built[r] \/ taken'[r] # taken[r]

\* C13: iteration is restartable. A pass changes no object, no file and no
\* process's place: what it gives depends on the object and the file alone,
\* so __iter__ called again right after gives the same sequences, however
\* far the generators of the pass before were drawn from; and as long as no
\* process constructs or reshuffles, no step changes an object or a file,
\* so every later pass gives them too.
C13_Restartable ==
    [][ /\ \A r \in Ranks :
             PassStep(r) =>
                /\ out'[r] = PassOf(obj[r], disk[FsOf(r)])
                /\ out'[r] = PassOf(obj'[r], disk'[FsOf(r)])
                /\ \A q \in Ranks \ {r} : out'[q] = out[q] /\ taken'[q] = taken[q]
                /\ UNCHANGED << obj, disk, pc, saves >>
        /\ UNCHANGED << obj, pc >> => disk' = disk ]_vars

C13_Witness ==
    /\ cfg.start_index > 0 /\ cfg.work_dir # None /\ cfg.world_size >= 2
    /\ \E r \in Ranks :
          /\ obj[r].local_rank # 0
          /\ out[r].done /\ out[r].err = None
          /\ out[r] = PassOf(obj[r], disk[FsOf(r)])
          /\ Len(out[r].slices[1]) >= 2
          /\ taken[r][1] > 0 /\ taken[r][1] < Len(out[r].slices[1])

\* C14 as stated: with drop_last = true and length % world_size # 0,
\* total_size is the largest multiple of world_size that does not exceed
\* length - world_size.
C14_LargestBelowLenMinusWorld ==
    (cfg.drop_last /\ dataset_len % cfg.world_size # 0) =>
       \A r \in Ranks :
          /\ obj[r].total_size % cfg.world_size = 0
          /\ obj[r].total_size <= dataset_len - cfg.world_size
          /\ obj[r].total_size + cfg.world_size > dataset_len - cfg.world_size

\* C14: with drop_last = true and length % world_size # 0, total_size is the
\* smallest multiple of world_size that is at least length - world_size,
\* which is the largest multiple of world_size that does not exceed length:
\* only the remainder length % world_size is dropped (17 and 4 give 16, not
\* 12), and the generated array has that many entries.
C14_LargestBelowLen ==
    /\ TotalSize(17, 4, TRUE) = 16
    /\ (cfg.drop_last /\ dataset_len % cfg.world_size # 0) =>
         \A r \in Ranks :
            /\ obj[r].total_size % cfg.world_size = 0
            /\ obj[r].total_size >= dataset_len - cfg.world_size
            /\ obj[r].total_size - cfg.world_size < dataset_len - cfg.world_size
            /\ obj[r].total_size <= dataset_len
            /\ obj[r].total_size + cfg.world_size > dataset_len
            /\ obj[r].total_size = dataset_len - (dataset_len % cfg.world_size)
            /\ built[r].done => Len(built[r].indices) = obj[r].total_size

C14_Witness ==
    /\ cfg.drop_last /\ dataset_len % cfg.world_size # 0
    /\ dataset_len > cfg.world_size /\ cfg.world_size >= 2
    /\ \E r \in Ranks :
          /\ built[r].done /\ out[r].done
          /\ obj[r].total_size > dataset_len - cfg.world_size
          /\ Len(built[r].indices) = dataset_len - 1

\* C15: with drop_last = false the generated array A is the permutation P of
\* 0..length-1 repeated cyclically: A[i] = P[i mod length] for every
\* 0 <= i < total_size, the first length entries of A are P, also when the
\* padding is larger than length and the loop wraps around several times;
\* the loop runs ceil(padding / length) times, so it ends for every
\* length >= 1 and world_size >= 1.
C15_CyclicPadding ==
    ~cfg.drop_last =>
       \A r \in Ranks : built[r].done =>
          LET A == built[r].indices
              P == Permutation(obj[r])
              padding_size == obj[r].total_size - dataset_len
          IN  /\ Len(P) = dataset_len
              /\ { P[k] : k \in 1..Len(P) } = 0..(dataset_len - 1)
              /\ Len(A) = obj[r].total_size
              /\ \A i \in 0..(obj[r].total_size - 1) : A[i + 1] = P[(i % dataset_len) + 1]
              /\ Prefix(A, dataset_len) = P
              /\ padding_size >= 0
              /\ PadLoopSteps(padding_size, dataset_len) = Ceil(padding_size, dataset_len)
              /\ PadLoopSteps(padding_size, dataset_len) <= padding_size

C15_Witness ==
    /\ ~cfg.drop_last /\ cfg.shuffle /\ dataset_len >= 2
    /\ \E r \in Ranks :
          /\ built[r].done
          /\ obj[r].total_size - dataset_len > dataset_len
          /\ PadLoopSteps(obj[r].total_size - dataset_len, dataset_len) >= 2
          /\ Permutation(obj[r]) # Arange(dataset_len)
          /\ Len(built[r].indices) = obj[r].total_size

\* C16: over any sequence of batch_checkpoint, iteration_checkpoint and
\* epoch_checkpoint events only the process of global rank 0 uploads, and no
\* instance uploads a name twice: a name in uploaded_files (at first the
\* listing of the repository) is not uploaded again, a name enters
\* uploaded_files only with an upload of it that returned, and
\* uploaded_files never shrinks.
C16_UploadOnce ==
    [][ \A r \in Ranks :
           /\ uploaded_files[r] \subseteq uploaded_files'[r]
           /\ \A f \in Paths :
                /\ uploads'[r][f] # uploads[r][f] =>
                     /\ r = 0
                     /\ f \notin uploaded_files[r]
                     /\ uploads'[r][f] = uploads[r][f] + 1
                /\ (f \in uploaded_files'[r] /\ f \notin uploaded_files[r]) =>
                     uploads'[r][f] = uploads[r][f] + 1
                /\ uploads[r][f] <= 1 /\ uploads'[r][f] <= 1 ]_vars

C16_Witness ==
    /\ cfg.world_size >= 2
    /\ \E f \in model_save_folder :
          f \in uploaded_files[0] /\ uploads[0][f] = 1
    /\ \E f \in model_save_folder :
          f.rank = 0 /\ ~f.sub /\ f \in uploaded_files[0] /\ uploads[0][f] = 0
    /\ \E f \in model_save_folder :
          f.rank = 0 /\ ~f.sub /\ f \notin uploaded_files[0] /\ training[0] = "raised"
    /\ \E f \in model_save_folder : f.rank = 0 /\ f.sub /\ f \notin uploaded_files[0]
    /\ \E r \in Ranks : r # 0 /\ last_checkpoint[r] = MaxSteps

\* C17: a sample with neither an input_ids column nor a text column is
\* rejected with a RuntimeError by __getitem__ of StreamingTextDataset and
\* of NoStreamingDataset: neither returns a value for it.
C17_RejectsSample ==
    ("input_ids" \notin sample.columns /\ "text" \notin sample.columns) =>
       \A c \in DatasetClasses :
          item[c].called => (item[c].err = "RuntimeError" /\ ~item[c].returned)

\* What get_global_indices gives the object self when the file of its
\* work_dir is f
LoadOf(self, f) ==
    IF self.global_indices_file # None THEN MemmapRead(f) ELSE Ok(BuildGlobalIndices(self))

\* The step is the construction or a reshuffle to another epoch of rank r
SetupStep(r) ==
    \/ pc[r] = "start" /\ pc'[r] # "start"
    \/ pc[r] = "ready" /\ obj'[r].epoch # obj[r].epoch

\* C18: the code orders nothing between the leader's write and the reads of
\* the others. A process with local_rank # 0 comes out of its construction
\* and of reshuffle(e) at once and without touching the file, whatever the
\* file holds; what it then reads is the file as it is. Only the callers'
\* barrier makes the processes agree: whenever it holds for an epoch, every
\* process is given the same array, and nothing changes the file while it
\* holds.
C18_OnlyTheBarrierOrders ==
    [][ /\ \A r \in Ranks :
             (LocalRank(r) # 0 /\ SetupStep(r)) =>
                /\ pc'[r] = "ready"
                /\ disk' = disk
                /\ cfg.work_dir # None =>
                     LoadOf(obj'[r], disk'[FsOf(r)]) = MemmapRead(disk[FsOf(r)])
        /\ \A e \in Epochs :
             /\ Barrier(e) =>
                  \A r, q \in Ranks :
                     /\ LoadOf(obj[r], disk[FsOf(r)]).err = None
                     /\ LoadOf(obj[r], disk[FsOf(r)]) = LoadOf(obj[q], disk[FsOf(q)])
             /\ (Barrier(e) /\ Barrier(e)') => disk' = disk ]_vars

\* Two processes have iterated epoch MaxEpoch over different arrays: the
\* leader over the array of that epoch, the other one, which did not wait,
\* over the array of the epoch before
C18_Witness ==
    /\ cfg.work_dir # None /\ cfg.world_size >= 2 /\ MaxEpoch >= 1
    /\ \E r, q \in Ranks :
          /\ obj[r].local_rank # 0 /\ obj[q].local_rank = 0 /\ FsOf(r) = FsOf(q)
          /\ obj[r].epoch = MaxEpoch /\ obj[q].epoch = MaxEpoch
          /\ out[q] = PassOver(q, ArrayFor(MaxEpoch), MaxEpoch)
          /\ out[r] = PassOver(r, ArrayFor(MaxEpoch - 1), MaxEpoch)
          /\ out[r] # PassOver(r, ArrayFor(MaxEpoch), MaxEpoch)

\* C19: reshuffle(epoch) changes the epoch alone (and, on the local leader
\* with a work_dir, the file): seed, start_index, shuffle, drop_last,
\* total_size and device_batch_size stay what the construction made them.
\* So a start_index > 0 stays in force: the passes of every later epoch
\* also leave out the first start_index entries of their array.
C19_ReshuffleKeepsStart ==
    [][ \A r \in Ranks :
           /\ pc[r] # "start" =>
                /\ obj'[r] = [obj[r] EXCEPT !.epoch = obj'[r].epoch]
                /\ obj'[r] = [NewObj(r) EXCEPT !.epoch = obj'[r].epoch,
                                               !.global_indices_file =
                                                   obj'[r].global_indices_file]
           /\ (pc[r] = "ready" /\ disk'[FsOf(r)] # disk[FsOf(r)]) =>
                \E q \in Ranks :
                   /\ FsOf(q) = FsOf(r) /\ LocalRank(q) = 0 /\ cfg.work_dir # None
                   /\ pc[q] # pc'[q]
           /\ (PassStep(r) /\ out'[r].err = None) =>
                LET loaded == LoadOf(obj[r], disk[FsOf(r)]).val
                IN  /\ out'[r].slices[1] =
                          RankSlice(obj[r], SliceFrom(Tag(loaded), cfg.start_index, 1))
                    /\ \A k \in 1..Len(out'[r].slices[1]) :
                          /\ out'[r].slices[1][k][1] >= cfg.start_index
                          /\ out'[r].slices[1][k][1] =
                                cfg.start_index + r + (k - 1) * cfg.world_size ]_vars

C19_Witness ==
    /\ cfg.start_index > 0 /\ cfg.work_dir # None /\ MaxEpoch >= 1
    /\ \E r \in Ranks :
          /\ obj[r].local_rank = 0
          /\ obj[r].epoch = MaxEpoch /\ obj[r].start_index = cfg.start_index
          /\ disk[FsOf(r)] = File(Encode(ArrayFor(MaxEpoch)))
          /\ ArrayFor(MaxEpoch) # ArrayFor(0)
          /\ out[r] = PassOver(r, ArrayFor(MaxEpoch), MaxEpoch)
          /\ Len(out[r].slices[1]) >= 2
          /\ out[r].slices[1][1][1] = cfg.start_index + r

====
